---- MODULE Spec2Model ----
(***************************************************************************)
(* Promotions REST service: the Promotion model (service/models.py) and    *)
(* its routes (service/routes.py) as a state machine over the table of     *)
(* stored promotions.                                                      *)
(*                                                                         *)
(* Python strings that the code inspects (lower(), upper(), int(),         *)
(* split(), strptime()) are sequences of one-character strings, so that    *)
(* these conversions are computed.  Values the code only compares as a     *)
(* whole (header values, error kinds) are plain TLA+ strings.              *)
(***************************************************************************)
EXTENDS Integers, Sequences, FiniteSets, TLC

VARIABLES store, nextId, testing, last, session

vars == <<store, nextId, testing, last, session>>

(***************************************************************************)
(* Bounds of the model                                                     *)
(***************************************************************************)
\* the primary-key sequence hands out 1..MaxId, then Create is no longer tried
MaxId == 2
\* rows of the table a query specification starts from
MaxRows == 3
\* query parameters of one GET /promotions request
MaxArgs == 2
\* required keys that a mapping given to deserialize lacks
MaxMissing == 2

(***************************************************************************)
(* Python values                                                           *)
(***************************************************************************)
\* None, where the code holds an id: ids are integers >= 0
None == -1

\* bool(x) of an id: None and 0 are falsy
Truthy(x) == x # None /\ x # 0

\* a header that the request does not carry
NoHeader == "<absent>"

\* the empty JSON object {} and the empty string ""
EmptyObject == [k \in {} |-> k]
EmptyString == ""

UpperLetters ==
    <<"A","B","C","D","E","F","G","H","I","J","K","L","M",
      "N","O","P","Q","R","S","T","U","V","W","X","Y","Z">>
LowerLetters ==
    <<"a","b","c","d","e","f","g","h","i","j","k","l","m",
      "n","o","p","q","r","s","t","u","v","w","x","y","z">>
Digits == <<"0","1","2","3","4","5","6","7","8","9">>

IndexIn(c, alphabet) ==
    IF \E i \in DOMAIN alphabet : alphabet[i] = c
    THEN CHOOSE i \in DOMAIN alphabet : alphabet[i] = c
    ELSE 0

\* str.lower() and str.upper()
lower(s) ==
    [i \in DOMAIN s |->
        IF IndexIn(s[i], UpperLetters) # 0
        THEN LowerLetters[IndexIn(s[i], UpperLetters)] ELSE s[i]]
upper(s) ==
    [i \in DOMAIN s |->
        IF IndexIn(s[i], LowerLetters) # 0
        THEN UpperLetters[IndexIn(s[i], LowerLetters)] ELSE s[i]]

IsDigit(c) == IndexIn(c, Digits) # 0
DigitVal(c) == IndexIn(c, Digits) - 1
AllDigits(s) == Len(s) > 0 /\ \A i \in DOMAIN s : IsDigit(s[i])

RECURSIVE DigitsValue(_)
DigitsValue(s) ==
    IF Len(s) = 0 THEN 0
    ELSE 10 * DigitsValue(SubSeq(s, 1, Len(s) - 1)) + DigitVal(s[Len(s)])

\* int(s): an optional sign and decimal digits; anything else is a ValueError
IntOk(s) ==
    \/ AllDigits(s)
    \/ Len(s) > 1 /\ s[1] \in {"-", "+"} /\ AllDigits(Tail(s))
IntOf(s) ==
    IF AllDigits(s) THEN DigitsValue(s)
    ELSE IF s[1] = "-" THEN 0 - DigitsValue(Tail(s))
    ELSE DigitsValue(Tail(s))

RECURSIVE NatStr(_)
NatStr(n) ==
    IF n < 10 THEN <<Digits[n + 1]>>
    ELSE NatStr(n \div 10) \o <<Digits[(n % 10) + 1]>>

\* "%d" % n
IntStr(n) == IF n < 0 THEN <<"-">> \o NatStr(0 - n) ELSE NatStr(n)
\* "%02d" % n
Pad2(n) == IF n < 10 THEN <<"0">> \o NatStr(n) ELSE NatStr(n)

\* str(timedelta) of a normalised timedelta (days, 0 <= seconds < 86400)
TimedeltaStr(d) ==
    LET mm0 == d.seconds \div 60
        ss  == d.seconds % 60
        hh  == mm0 \div 60
        mm  == mm0 % 60
        hms == IntStr(hh) \o <<":">> \o Pad2(mm) \o <<":">> \o Pad2(ss)
        plural == IF d.days = 1 \/ d.days = -1 THEN <<>> ELSE <<"s">>
    IN  IF d.days # 0
        THEN IntStr(d.days) \o <<" ","d","a","y">> \o plural \o <<","," ">> \o hms
        ELSE hms

(***************************************************************************)
(* PromotionType                                                           *)
(***************************************************************************)
PromotionType == {"AMOUNT_DISCOUNT", "PERCENTAGE_DISCOUNT", "BUY_ONE_GET_ONE"}

\* member.name, as a Python string
EnumName(m) ==
    CASE m = "AMOUNT_DISCOUNT" ->
           <<"A","M","O","U","N","T","_","D","I","S","C","O","U","N","T">>
      [] m = "PERCENTAGE_DISCOUNT" ->
           <<"P","E","R","C","E","N","T","A","G","E","_",
             "D","I","S","C","O","U","N","T">>
      [] m = "BUY_ONE_GET_ONE" ->
           <<"B","U","Y","_","O","N","E","_","G","E","T","_","O","N","E">>

\* PromotionType[name]: the member of that name, a KeyError when there is none
IsEnumName(s) == \E m \in PromotionType : EnumName(m) = s
EnumByName(s) == CHOOSE m \in PromotionType : EnumName(m) = s

(***************************************************************************)
(* Promotion values the requests draw from                                 *)
(***************************************************************************)
FieldOrder ==
    <<"title", "description", "promo_code", "promo_type", "promo_value",
      "start_date", "created_date", "duration", "active">>
Fields == {FieldOrder[i] : i \in DOMAIN FieldOrder}

\* two promotions that differ in every field but active
Profile(k) ==
    IF k = 1
    THEN [title |-> <<"S","a","l","e">>, description |-> <<"x">>,
          promo_code |-> 7, promo_type |-> "AMOUNT_DISCOUNT",
          promo_value |-> <<"5">>,
          start_date |-> <<2024, 1, 1>>, created_date |-> <<2023, 12, 31>>,
          duration |-> [days |-> 2, seconds |-> 3723]]
    ELSE [title |-> <<"B","O","G","O">>, description |-> <<"y">>,
          promo_code |-> 12, promo_type |-> "BUY_ONE_GET_ONE",
          promo_value |-> <<"1","0">>,
          start_date |-> <<2024, 2, 29>>, created_date |-> <<2024, 1, 1>>,
          duration |-> [days |-> 0, seconds |-> 3600]]

\* the JSON body that carries profile k with the given active flag:
\* promo_type travels as the enumeration name
FullBody(k, a) ==
    [f \in Fields |->
        IF f = "active" THEN a
        ELSE IF f = "promo_type" THEN EnumName(Profile(k).promo_type)
        ELSE Profile(k)[f]]

WithId(b, i) == [f \in DOMAIN b \cup {"id"} |-> IF f = "id" THEN i ELSE b[f]]
Without(b, key) == [f \in DOMAIN b \ {key} |-> b[f]]

ValidBodies == {FullBody(k, a) : k \in {1, 2}, a \in BOOLEAN}

\* bodies of POST and PUT: complete ones, with and without an "id" key, one
\* with a promo_type that names no member, and ones that lack keys
Bodies ==
    ValidBodies
    \cup {WithId(FullBody(2, FALSE), i) : i \in {1, 2}}
    \cup {[FullBody(1, TRUE) EXCEPT !.promo_type = <<"F","R","E","E">>]}
    \cup {Without(FullBody(2, TRUE), "promo_code"),
          Without(FullBody(2, TRUE), "active"), EmptyObject}

(***************************************************************************)
(* Promotion (service/models.py)                                           *)
(*                                                                         *)
(* A row of the table is a record of the ten columns plus uid, the row's   *)
(* identity in the table (it never changes and is not a column).  An       *)
(* instance is a row in memory; its promo_type is [enum |-> member] or,    *)
(* after an assignment of a string, [str |-> the string].                  *)
(***************************************************************************)
Unset == "<unset>"

\* Promotion(): a transient instance, every attribute None
NewPromotion ==
    [uid |-> None, id |-> None,
     title |-> Unset, description |-> Unset, promo_code |-> Unset,
     promo_type |-> Unset, promo_value |-> Unset, start_date |-> Unset,
     created_date |-> Unset, duration |-> Unset, active |-> Unset]

\* the instance the session loads for a row
Loaded(row) == [row EXCEPT !.promo_type = [enum |-> @]]

\* Promotion(id=i, **profile): the instance a caller of the model builds
Instance(k, a, i) ==
    [uid |-> None, id |-> i,
     title |-> Profile(k).title, description |-> Profile(k).description,
     promo_code |-> Profile(k).promo_code,
     promo_type |-> [enum |-> Profile(k).promo_type],
     promo_value |-> Profile(k).promo_value,
     start_date |-> Profile(k).start_date,
     created_date |-> Profile(k).created_date,
     duration |-> Profile(k).duration, active |-> a]

Ids(S) == {r.id : r \in S}

\* what the Enum column takes for an attribute value: a member or a member's
\* name; any other string is refused when the statement is executed
EnumBindOk(v) == "enum" \in DOMAIN v \/ IsEnumName(v.str)
EnumBind(v) == IF "enum" \in DOMAIN v THEN v.enum ELSE EnumByName(v.str)

\* as create, but without line 68: an id the caller supplied is inserted
create_keeps_id(S, n, self) ==
    LET i == IF self.id = None THEN n ELSE self.id
    IN  IF EnumBindOk(self.promo_type) /\ i \notin Ids(S)
        THEN [ok |-> TRUE,
              store |-> S \cup {[self EXCEPT !.id = i, !.uid = n,
                                           !.promo_type = EnumBind(@)]},
              nextId |-> n + 1, id |-> i, commits |-> 1, rollbacks |-> 0,
              raised |-> "none"]
        ELSE [ok |-> FALSE, store |-> S, nextId |-> n, id |-> None,
              commits |-> 1, rollbacks |-> 1,
              raised |-> "DataValidationError"]

\* as create, but a promo_type that names no member is stored as the first
\* member instead of being refused
create_defaulting(S, n, self) ==
    LET s1 == [self EXCEPT !.id = None]
        row == [s1 EXCEPT !.id = n, !.uid = n,
                          !.promo_type = IF EnumBindOk(@) THEN EnumBind(@)
                                         ELSE "AMOUNT_DISCOUNT"]
    IN  [ok |-> TRUE, store |-> S \cup {row}, nextId |-> n + 1,
         id |-> n, commits |-> 1, rollbacks |-> 0, raised |-> "none"]

\* Promotion.create: a transient instance is inserted under the next value of
\* the primary-key sequence; a failing flush is rolled back.  commits and
\* rollbacks count the calls of db.session.commit() and db.session.rollback(),
\* raised is the exception that leaves the method
create(S, n, self) ==
    LET s1 == [self EXCEPT !.id = None]
    IN  IF EnumBindOk(s1.promo_type)
        THEN LET row == [s1 EXCEPT !.id = n, !.uid = n,
                                 !.promo_type = EnumBind(@)]
             IN  [ok |-> TRUE, store |-> S \cup {row}, nextId |-> n + 1,
                  id |-> n, commits |-> 1, rollbacks |-> 0,
                  raised |-> "none"]
        ELSE [ok |-> FALSE, store |-> S, nextId |-> n, id |-> None,
              commits |-> 1, rollbacks |-> 1,
              raised |-> "DataValidationError"]

\* as update, but without the check of self.id
update_unchecked(S, self, state) ==
    IF state # "persistent"
    THEN [ok |-> TRUE, store |-> S, commits |-> 1, rollbacks |-> 0,
          raised |-> "none"]
    ELSE [ok |-> TRUE,
          store |-> {r \in S : r.uid # self.uid}
                    \cup {[self EXCEPT !.promo_type = EnumBind(@)]},
          commits |-> 1, rollbacks |-> 0, raised |-> "none"]

\* Promotion.update: commits the session.  state is the instance's state in
\* the session: only a persistent instance has changes to flush.
update(S, self, state) ==
    IF ~Truthy(self.id)
    THEN [ok |-> FALSE, store |-> S, commits |-> 0, rollbacks |-> 0,
          raised |-> "DataValidationError"]
    ELSE IF state # "persistent"
    THEN [ok |-> TRUE, store |-> S, commits |-> 1, rollbacks |-> 0,
          raised |-> "none"]
    ELSE IF /\ EnumBindOk(self.promo_type)
            /\ \A r \in S : r.id = self.id => r.uid = self.uid
    THEN [ok |-> TRUE,
          store |-> {r \in S : r.uid # self.uid}
                    \cup {[self EXCEPT !.promo_type = EnumBind(@)]},
          commits |-> 1, rollbacks |-> 0, raised |-> "none"]
    ELSE [ok |-> FALSE, store |-> S, commits |-> 1, rollbacks |-> 1,
          raised |-> "DataValidationError"]

\* as delete, but the row is searched by the instance's id
delete_by_id(S, self, state) ==
    [ok |-> TRUE, store |-> {r \in S : r.id # self.id}, commits |-> 1,
     rollbacks |-> 0, raised |-> "none"]

\* Promotion.delete: session.delete refuses a transient instance (it is not
\* persisted); for an instance whose row is already gone the DELETE matches
\* no row, which is not an error
delete(S, self, state) ==
    IF state = "transient"
    THEN [ok |-> FALSE, store |-> S, commits |-> 0, rollbacks |-> 1,
          raised |-> "DataValidationError"]
    ELSE [ok |-> TRUE, store |-> {r \in S : r.uid # self.uid},
          commits |-> 1, rollbacks |-> 0, raised |-> "none"]

\* as rollback, but what the flush had written stays in the table
rollback_partial(S, n, r) ==
    [ok |-> FALSE, store |-> r.store, nextId |-> n, id |-> None,
     commits |-> r.commits, rollbacks |-> 0,
     raised |-> "DataValidationError"]

\* the except clauses of create, update and delete, when the store fails
\* while the session commits (the connection is lost, say): r is what the
\* commit would have left, S and n the table and the sequence before it.
\* The transaction is rolled back and DataValidationError(e) is raised.
rollback(S, n, r) ==
    [ok |-> FALSE, store |-> S, nextId |-> n, id |-> None,
     commits |-> r.commits, rollbacks |-> 1,
     raised |-> "DataValidationError"]

\* db.session.commit() of a call whose result would be r, on a store that
\* fails (fault) or works; a call that raises before its commit is as it is
commit(S, n, r, fault) ==
    IF fault /\ r.commits > 0 THEN rollback(S, n, r) ELSE r

\* Promotion.serialize, of a loaded instance
serialize(self) ==
    [id |-> self.id, title |-> self.title, description |-> self.description,
     promo_code |-> self.promo_code,
     promo_type |-> EnumName(self.promo_type.enum),
     promo_value |-> self.promo_value, start_date |-> self.start_date,
     created_date |-> self.created_date,
     duration |-> TimedeltaStr(self.duration), active |-> self.active]

\* self.promo_type.name: an AttributeError unless promo_type is a member
CanSerialize(self) == "enum" \in DOMAIN self.promo_type

\* Promotion.deserialize: the keys are read in FieldOrder; the first one that
\* data lacks raises, after the earlier ones were assigned.  ok is false when
\* it raises DataValidationError("Invalid Promotion: missing " + missing)
FirstMissing(data) ==
    IF \A i \in DOMAIN FieldOrder : FieldOrder[i] \in DOMAIN data THEN 0
    ELSE CHOOSE i \in DOMAIN FieldOrder :
            /\ FieldOrder[i] \notin DOMAIN data
            /\ \A j \in 1..(i - 1) : FieldOrder[j] \in DOMAIN data

Assigned(data) ==
    IF FirstMissing(data) = 0 THEN Fields
    ELSE {FieldOrder[j] : j \in 1..(FirstMissing(data) - 1)}

\* as deserialize, but an "id" key of data is assigned too
deserialize_with_id(self, data) ==
    [ok |-> FirstMissing(data) = 0,
     missing |-> IF FirstMissing(data) = 0 THEN Unset
                 ELSE FieldOrder[FirstMissing(data)],
     self |-> [f \in DOMAIN self |->
                 IF f \in Assigned(data)
                 THEN IF f = "promo_type" THEN [str |-> data[f]] ELSE data[f]
                 ELSE IF f = "id" /\ "id" \in DOMAIN data THEN data[f]
                 ELSE self[f]]]

\* as deserialize, but the error names the last key that data lacks
deserialize_last_missing(self, data) ==
    [ok |-> FirstMissing(data) = 0,
     missing |-> IF FirstMissing(data) = 0 THEN Unset
                 ELSE FieldOrder[CHOOSE i \in DOMAIN FieldOrder :
                         /\ FieldOrder[i] \notin DOMAIN data
                         /\ \A j \in DOMAIN FieldOrder :
                               j > i => FieldOrder[j] \in DOMAIN data],
     self |-> [f \in DOMAIN self |->
                 IF f \in Assigned(data)
                 THEN IF f = "promo_type" THEN [str |-> data[f]] ELSE data[f]
                 ELSE self[f]]]

\* as deserialize, but with data.get(key, default) in place of data[key]: a
\* key that data lacks takes a default value instead of raising
deserialize_lenient(self, data) ==
    LET got == [f \in Fields |->
                   IF f \in DOMAIN data THEN data[f]
                   ELSE FullBody(1, FALSE)[f]]
    IN  [ok |-> TRUE,
         missing |-> Unset,
         self |-> [f \in DOMAIN self |->
                     IF f = "promo_type" THEN [str |-> got[f]]
                     ELSE IF f \in Fields THEN got[f]
                     ELSE self[f]]]

deserialize(self, data) ==
    [ok |-> FirstMissing(data) = 0,
     missing |-> IF FirstMissing(data) = 0 THEN Unset
                 ELSE FieldOrder[FirstMissing(data)],
     self |-> [f \in DOMAIN self |->
                 IF f \in Assigned(data)
                 THEN IF f = "promo_type" THEN [str |-> data[f]] ELSE data[f]
                 ELSE self[f]]]

\* Promotion.remove_all
remove_all(S) == [store |-> {}, count |-> Cardinality(S)]

\* Promotion.all and Promotion.find (None: the empty set)
all(S) == S
find(S, by_id) == {r \in S : r.id = by_id}

(***************************************************************************)
(* Queries (Promotion.find_by_...)                                         *)
(***************************************************************************)
find_by_title(S, title) == {r \in S : r.title = title}
find_by_promo_code(S, promo_code) == {r \in S : r.promo_code = promo_code}
find_by_promo_type(S, promo_type) == {r \in S : r.promo_type = promo_type}
find_by_active(S, active) == {r \in S : r.active = active}

\* the columns of the table and the types find_by_fields tests for
Columns == {"id"} \cup Fields
ColumnType(f) ==
    CASE f \in {"id", "promo_code"} -> "Integer"
      [] f = "active" -> "Boolean"
      [] f \in {"start_date", "created_date"} -> "Date"
      [] f = "duration" -> "Interval"
      [] f = "promo_type" -> "Enum"
      [] OTHER -> "String"

\* hasattr(cls, name): the columns, and what else the class has
OtherAttributes ==
    {"query", "metadata", "serialize", "deserialize", "create", "update",
     "delete", "all", "find", "remove_all", "find_by_fields"}
hasattr(name) == name \in Columns \cup OtherAttributes

\* s.split(sep), sep not empty
RECURSIVE split(_, _)
split(s, sep) ==
    LET at == {i \in 1..(Len(s) - Len(sep) + 1) :
                  SubSeq(s, i, i + Len(sep) - 1) = sep}
    IN  IF at = {} THEN <<s>>
        ELSE LET i == CHOOSE k \in at : \A j \in at : k <= j
             IN  <<SubSeq(s, 1, i - 1)>>
                 \o split(SubSeq(s, i + Len(sep), Len(s)), sep)

\* s.split(): the words of s; here whether there is one, and the first
HasWord(s) == \E i \in DOMAIN s : s[i] # " "
FirstWord(s) ==
    LET b == CHOOSE i \in DOMAIN s :
                 s[i] # " " /\ \A j \in 1..(i - 1) : s[j] = " "
        ends == {i \in b..Len(s) : i = Len(s) \/ s[i + 1] = " "}
        e == CHOOSE i \in ends : \A j \in ends : i <= j
    IN  SubSeq(s, b, e)

\* a strptime directive that reads one or two digits of a number in lo..hi
TwoDigits(s, lo, hi) ==
    /\ Len(s) \in {1, 2}
    /\ AllDigits(s)
    /\ DigitsValue(s) >= lo
    /\ DigitsValue(s) <= hi

IsLeap(y) == (y % 4 = 0 /\ y % 100 # 0) \/ y % 400 = 0
DaysInMonth(y, m) ==
    IF m = 2 THEN (IF IsLeap(y) THEN 29 ELSE 28)
    ELSE IF m \in {4, 6, 9, 11} THEN 30 ELSE 31

\* datetime.strptime(value, "%Y-%m-%d").date(); a date is <<year, month, day>>
DateOk(value) ==
    LET p == split(value, <<"-">>)
    IN  /\ Len(p) = 3
        /\ Len(p[1]) = 4 /\ AllDigits(p[1]) /\ DigitsValue(p[1]) >= 1
        /\ TwoDigits(p[2], 1, 12)
        /\ TwoDigits(p[3], 1, 31)
        /\ DigitsValue(p[3]) <= DaysInMonth(DigitsValue(p[1]),
                                            DigitsValue(p[2]))
DateOf(value) ==
    LET p == split(value, <<"-">>)
    IN  <<DigitsValue(p[1]), DigitsValue(p[2]), DigitsValue(p[3])>>

\* datetime.strptime(time_part, "%H:%M:%S").time()
TimeOk(time_part) ==
    LET p == split(time_part, <<":">>)
    IN  /\ Len(p) = 3
        /\ TwoDigits(p[1], 0, 23)
        /\ TwoDigits(p[2], 0, 59)
        /\ TwoDigits(p[3], 0, 59)

\* timedelta(days=, hours=, minutes=, seconds=), normalised
timedelta(days, hours, minutes, seconds) ==
    LET total == hours * 3600 + minutes * 60 + seconds
    IN  [days |-> days + (total \div 86400), seconds |-> total % 86400]

\* lines 248-261: the error the conversion of a duration raises, if any
IntervalError(value) ==
    LET p == split(value, <<",", " ">>)
    IN  IF Len(p) # 2 THEN "ValueError"
        ELSE IF ~HasWord(p[1]) THEN "IndexError"
        ELSE IF ~IntOk(FirstWord(p[1])) THEN "ValueError"
        ELSE IF ~TimeOk(p[2]) THEN "ValueError"
        ELSE "none"
IntervalOf(value) ==
    LET p == split(value, <<",", " ">>)
        t == split(p[2], <<":">>)
    IN  timedelta(IntOf(FirstWord(p[1])), DigitsValue(t[1]),
                  DigitsValue(t[2]), DigitsValue(t[3]))

\* lines 232-261, for one entry of query_params (a pair <<field_name, value>>):
\* the error raised, if any.  An attribute that is no column has no type.
ParamError(param) ==
    LET field_name == param[1]
        value == param[2]
    IN  IF ~hasattr(field_name) THEN "DataValidationError"
        ELSE IF field_name \notin Columns THEN "AttributeError"
        ELSE CASE ColumnType(field_name) = "Integer" ->
                    IF IntOk(value) THEN "none" ELSE "ValueError"
               [] ColumnType(field_name) = "Date" ->
                    IF DateOk(value) THEN "none" ELSE "ValueError"
               [] ColumnType(field_name) = "Interval" -> IntervalError(value)
               [] OTHER -> "none"

\* as Coerced, but a Boolean column takes bool(value): any string that is not
\* empty is true
Coerced_truthy(param) ==
    LET field_name == param[1]
        value == param[2]
    IN  CASE ColumnType(field_name) = "Integer" -> IntOf(value)
          [] ColumnType(field_name) = "Boolean" -> Len(value) > 0
          [] ColumnType(field_name) = "Date" -> DateOf(value)
          [] ColumnType(field_name) = "Interval" -> IntervalOf(value)
          [] OTHER -> value

\* the value the filter compares the column with
Coerced(param) ==
    LET field_name == param[1]
        value == param[2]
    IN  CASE ColumnType(field_name) = "Integer" -> IntOf(value)
          [] ColumnType(field_name) = "Boolean" ->
               (lower(value) = <<"t","r","u","e">>)
          [] ColumnType(field_name) = "Date" -> DateOf(value)
          [] ColumnType(field_name) = "Interval" -> IntervalOf(value)
          [] OTHER -> value

\* field == value, for a row; an Enum column is compared by member name
Equals(r, param) ==
    IF ColumnType(param[1]) = "Enum"
    THEN EnumName(r.promo_type) = Coerced(param)
    ELSE r[param[1]] = Coerced(param)

\* the statement is refused by the database when a string that names no
\* member is compared with the Enum column
Executes(query_params) ==
    \A i \in DOMAIN query_params :
        ColumnType(query_params[i][1]) = "Enum"
            => IsEnumName(query_params[i][2])

\* as find_by_fields, but an entry whose value cannot be converted is left
\* out of the filter
find_by_fields_skipping(S, query_params) ==
    LET bad == {i \in DOMAIN query_params :
                   ~hasattr(query_params[i][1])}
        kept == {i \in DOMAIN query_params :
                    ParamError(query_params[i]) = "none"}
    IN  IF bad # {}
        THEN [ok |-> FALSE, rows |-> {}, error |-> "DataValidationError"]
        ELSE [ok |-> TRUE, error |-> "none",
              rows |-> {r \in S : \A i \in kept :
                                     /\ ColumnType(query_params[i][1]) = "Enum"
                                           => IsEnumName(query_params[i][2])
                                     /\ Equals(r, query_params[i])}]

\* as find_by_fields, but each entry's filter is put on cls.query instead of
\* on the query built so far: only the last entry filters
find_by_fields_last(S, query_params) ==
    LET bad == {i \in DOMAIN query_params :
                   ParamError(query_params[i]) # "none"}
        n == Len(query_params)
    IN  IF bad # {}
        THEN [ok |-> FALSE, rows |-> {},
              error |-> ParamError(query_params[
                            CHOOSE i \in bad : \A j \in bad : i <= j])]
        ELSE IF n > 0 /\ ColumnType(query_params[n][1]) = "Enum"
                /\ ~IsEnumName(query_params[n][2])
        THEN [ok |-> FALSE, rows |-> {}, error |-> "DataError"]
        ELSE [ok |-> TRUE, error |-> "none",
              rows |-> {r \in S : n > 0 => Equals(r, query_params[n])}]

\* Promotion.find_by_fields: query_params in the order of the dict; the first
\* entry that fails raises, and the query runs only after the loop
find_by_fields(S, query_params) ==
    LET bad == {i \in DOMAIN query_params :
                   ParamError(query_params[i]) # "none"}
    IN  IF bad # {}
        THEN [ok |-> FALSE, rows |-> {},
              error |-> ParamError(query_params[
                            CHOOSE i \in bad : \A j \in bad : i <= j])]
        ELSE IF ~Executes(query_params)
        THEN [ok |-> FALSE, rows |-> {}, error |-> "DataError"]
        ELSE [ok |-> TRUE, error |-> "none",
              rows |-> {r \in S : \A i \in DOMAIN query_params :
                                     Equals(r, query_params[i])}]


(***************************************************************************)
(* Routes (service/routes.py)                                              *)
(***************************************************************************)
HTTP_200_OK == 200
HTTP_201_CREATED == 201
HTTP_204_NO_CONTENT == 204
HTTP_400_BAD_REQUEST == 400
HTTP_401_UNAUTHORIZED == 401
HTTP_404_NOT_FOUND == 404
HTTP_415_UNSUPPORTED_MEDIA_TYPE == 415
HTTP_500_INTERNAL_SERVER_ERROR == 500

\* app.config["API_KEY"]: create_app generates one when none is configured
API_KEY == "s3cr3t"
Tokens == {NoHeader, API_KEY, "wrong"}
ContentTypes ==
    {NoHeader, "application/json", "test/html",
     "application/json; charset=utf-8"}

\* the promotion_id of a path; 0 is never assigned by the sequence
PathIds == 0..MaxId

NoData == "<not read>"
Message(m) == [message |-> m]

\* location: the promotion_id of the Location header, None without the header;
\* tx: whether the handler has committed or rolled back its session; dirty:
\* the loaded instances it has changed in memory and left in the session
Response(S, n, status, out, data) ==
    [store |-> S, nextId |-> n, status |-> status, out |-> out, data |-> data,
     location |-> None, tx |-> "none", dirty |-> {}]

\* the handler's model call has committed, or has rolled back and raised
Committed(r) == [r EXCEPT !.tx = "commit"]
RolledBack(r) == [r EXCEPT !.tx = "rollback"]

\* promotion.deserialize(data) has raised on a loaded promotion: the
\* attributes assigned before the missing key stay changed in the session
Dirty(promotion, changed) ==
    IF changed = Loaded(promotion) THEN {} ELSE {changed}

\* as token_required, but a request without the header is let through
token_required_absent(token) == token = NoHeader \/ API_KEY = token

\* token_required: whether the decorated handler is called
token_required(token) == API_KEY # "" /\ API_KEY = token

Unauthorized(S, n) ==
    Response(S, n, HTTP_401_UNAUTHORIZED, Message("Invalid or missing token"),
             NoData)

\* as check_content_type, but any Content-Type header is let through
check_content_type_present(ctype) == ctype # NoHeader

\* check_content_type("application/json"): whether it returns (else abort 415)
check_content_type(ctype) == ctype # NoHeader /\ ctype = "application/json"

UnsupportedMediaType(S, n) ==
    Response(S, n, HTTP_415_UNSUPPORTED_MEDIA_TYPE,
             Message("Content-Type must be application/json"), NoData)

NotFound(S, n) ==
    Response(S, n, HTTP_404_NOT_FOUND, Message("was not found"), NoData)

\* a DataValidationError that leaves the handler
BadRequest(S, n, data) ==
    Response(S, n, HTTP_400_BAD_REQUEST, Message("Bad Request"), data)

\* an exception no handler catches (KeyError, ValueError, AttributeError)
ServerError(S, n, data) ==
    Response(S, n, HTTP_500_INTERNAL_SERVER_ERROR,
             Message("Internal Server Error"), data)

\* as PromotionResource.get, but without the abort: a promotion that is not
\* found is answered 200 with an empty object
PromotionResource_get_unchecked(S, n, promotion_id) ==
    IF find(S, promotion_id) = {}
    THEN Response(S, n, HTTP_200_OK, EmptyObject, NoData)
    ELSE LET promotion == CHOOSE r \in find(S, promotion_id) : TRUE
         IN  Response(S, n, HTTP_200_OK, serialize(Loaded(promotion)), NoData)

\* PromotionResource.get
PromotionResource_get(S, n, promotion_id) ==
    IF find(S, promotion_id) = {} THEN NotFound(S, n)
    ELSE LET promotion == CHOOSE r \in find(S, promotion_id) : TRUE
         IN  Response(S, n, HTTP_200_OK, serialize(Loaded(promotion)), NoData)

\* as PromotionResource.put, but without promotion.update()
PromotionResource_put_unsaved(S, n, promotion_id, ctype, body) ==
    IF ~check_content_type(ctype) THEN UnsupportedMediaType(S, n)
    ELSE IF find(S, promotion_id) = {} THEN NotFound(S, n)
    ELSE LET promotion == CHOOSE r \in find(S, promotion_id) : TRUE
             d == deserialize(Loaded(promotion), body)
         IN  IF ~d.ok \/ ~EnumBindOk(d.self.promo_type)
             THEN BadRequest(S, n, body)
             ELSE Response(S, n, HTTP_200_OK,
                           serialize([d.self EXCEPT
                                         !.promo_type =
                                             [enum |-> EnumBind(@)]]), body)

\* as PromotionResource.put, but a promotion that is not found is created
\* from the body
PromotionResource_put_upsert(S, n, promotion_id, ctype, body) ==
    IF ~check_content_type(ctype) THEN UnsupportedMediaType(S, n)
    ELSE IF find(S, promotion_id) = {}
    THEN LET d == deserialize(NewPromotion, body)
             c == create(S, n, d.self)
         IN  IF ~d.ok \/ ~c.ok THEN BadRequest(S, n, body)
             ELSE Committed(Response(c.store, c.nextId, HTTP_200_OK,
                                     serialize(Loaded(CHOOSE r \in c.store :
                                                          r.uid = c.id)),
                                     body))
    ELSE LET promotion == CHOOSE r \in find(S, promotion_id) : TRUE
             d == deserialize(Loaded(promotion), body)
             u == update(S, d.self, "persistent")
         IN  IF ~d.ok THEN BadRequest(S, n, body)
             ELSE IF ~u.ok THEN RolledBack(BadRequest(S, n, body))
             ELSE LET saved == CHOOSE r \in u.store : r.uid = promotion.uid
                  IN  Committed(Response(u.store, n, HTTP_200_OK,
                                         serialize(Loaded(saved)), body))

\* PromotionResource.put, behind token_required
PromotionResource_put(S, n, promotion_id, ctype, body) ==
    IF ~check_content_type(ctype) THEN UnsupportedMediaType(S, n)
    ELSE IF find(S, promotion_id) = {} THEN NotFound(S, n)
    ELSE LET promotion == CHOOSE r \in find(S, promotion_id) : TRUE
             d == deserialize(Loaded(promotion), body)
             u == update(S, d.self, "persistent")
         IN  IF ~d.ok
             THEN [BadRequest(S, n, body)
                      EXCEPT !.dirty = Dirty(promotion, d.self)]
             ELSE IF ~u.ok THEN RolledBack(BadRequest(S, n, body))
             ELSE LET saved == CHOOSE r \in u.store : r.uid = promotion.uid
                  IN  Committed(Response(u.store, n, HTTP_200_OK,
                                         serialize(Loaded(saved)), body))

\* as PromotionResource.delete, but an id that is not stored is a 404
PromotionResource_delete_404(S, n, promotion_id) ==
    IF find(S, promotion_id) = {} THEN NotFound(S, n)
    ELSE Committed(Response({r \in S : r.id # promotion_id}, n,
                            HTTP_204_NO_CONTENT, EmptyObject, NoData))

\* PromotionResource.delete, behind token_required
PromotionResource_delete(S, n, promotion_id) ==
    IF find(S, promotion_id) = {}
    THEN Response(S, n, HTTP_204_NO_CONTENT, EmptyObject, NoData)
    ELSE LET promotion == CHOOSE r \in find(S, promotion_id) : TRUE
             x == delete(S, Loaded(promotion), "persistent")
         IN  IF x.ok
             THEN Committed(Response(x.store, n, HTTP_204_NO_CONTENT,
                                     EmptyObject, NoData))
             ELSE RolledBack(BadRequest(S, n, NoData))

\* PromotionCollection.post, behind token_required
PromotionCollection_post(S, n, ctype, body) ==
    IF ~check_content_type(ctype) THEN UnsupportedMediaType(S, n)
    ELSE LET d == deserialize(NewPromotion, body)
             c == create(S, n, d.self)
         IN  IF ~d.ok THEN BadRequest(S, n, body)
             ELSE IF ~c.ok THEN RolledBack(BadRequest(S, n, body))
             ELSE LET saved == CHOOSE r \in c.store : r.uid = c.id
                  IN  [Committed(Response(c.store, c.nextId,
                                          HTTP_201_CREATED,
                                          serialize(Loaded(saved)), body))
                          EXCEPT !.location = saved.id]

\* as PromotionCollection.delete, but without the test of TESTING
PromotionCollection_delete_always(S, n, under_test) ==
    Committed(Response(remove_all(S).store, n, HTTP_204_NO_CONTENT,
                       EmptyString, NoData))

\* PromotionCollection.delete, behind token_required
PromotionCollection_delete(S, n, under_test) ==
    IF under_test
    THEN Committed(Response(remove_all(S).store, n, HTTP_204_NO_CONTENT,
                            EmptyString, NoData))
    ELSE Response(S, n, HTTP_204_NO_CONTENT, EmptyString, NoData)

\* as ToggleActivateResource.put, but active is flipped, whatever the body
\* asks for
ToggleActivateResource_put_flip(S, n, promotion_id, ctype, body) ==
    IF ~check_content_type(ctype) THEN UnsupportedMediaType(S, n)
    ELSE IF find(S, promotion_id) = {} THEN NotFound(S, n)
    ELSE IF "active" \notin DOMAIN body THEN ServerError(S, n, body)
    ELSE LET promotion == CHOOSE r \in find(S, promotion_id) : TRUE
             changed == [Loaded(promotion) EXCEPT !.active = ~@]
             u == update(S, changed, "persistent")
         IN  IF ~u.ok THEN RolledBack(BadRequest(S, n, body))
             ELSE LET saved == CHOOSE r \in u.store : r.uid = promotion.uid
                  IN  Committed(Response(u.store, n, HTTP_200_OK,
                                         serialize(Loaded(saved)), body))

\* ToggleActivateResource.put, behind token_required
ToggleActivateResource_put(S, n, promotion_id, ctype, body) ==
    IF ~check_content_type(ctype) THEN UnsupportedMediaType(S, n)
    ELSE IF find(S, promotion_id) = {} THEN NotFound(S, n)
    ELSE IF "active" \notin DOMAIN body THEN ServerError(S, n, body)
    ELSE LET promotion == CHOOSE r \in find(S, promotion_id) : TRUE
             changed == [Loaded(promotion) EXCEPT !.active = body.active]
             u == update(S, changed, "persistent")
         IN  IF ~u.ok THEN RolledBack(BadRequest(S, n, body))
             ELSE LET saved == CHOOSE r \in u.store : r.uid = promotion.uid
                  IN  Committed(Response(u.store, n, HTTP_200_OK,
                                         serialize(Loaded(saved)), body))

\* str(n) with at least four digits: the year of an ISO or an HTTP date
Pad4(n) ==
    IF n < 10 THEN <<"0","0","0">> \o NatStr(n)
    ELSE IF n < 100 THEN <<"0","0">> \o NatStr(n)
    ELSE IF n < 1000 THEN <<"0">> \o NatStr(n)
    ELSE NatStr(n)

\* date.isoformat()
isoformat(d) ==
    Pad4(d[1]) \o <<"-">> \o Pad2(d[2]) \o <<"-">> \o Pad2(d[3])

\* date.weekday(): 0 is Monday
weekday(d) ==
    LET t == <<0, 3, 2, 5, 0, 3, 5, 1, 4, 6, 2, 4>>
        y == IF d[2] < 3 THEN d[1] - 1 ELSE d[1]
        sunday0 == (y + (y \div 4) - (y \div 100) + (y \div 400)
                    + t[d[2]] + d[3]) % 7
    IN  (sunday0 + 6) % 7

DayNames ==
    <<<<"M","o","n">>, <<"T","u","e">>, <<"W","e","d">>, <<"T","h","u">>, <<"F","r","i">>, <<"S","a","t">>, <<"S","u","n">>>>
MonthNames ==
    <<<<"J","a","n">>, <<"F","e","b">>, <<"M","a","r">>, <<"A","p","r">>, <<"M","a","y">>, <<"J","u","n">>, <<"J","u","l">>, <<"A","u","g">>, <<"S","e","p">>, <<"O","c","t">>, <<"N","o","v">>, <<"D","e","c">>>>

\* jsonify renders a date as an HTTP date: "Mon, 01 Jan 2024 00:00:00 GMT"
http_date(d) ==
    DayNames[weekday(d) + 1] \o <<",", " ">> \o Pad2(d[3]) \o <<" ">>
    \o MonthNames[d[2]] \o <<" ">> \o Pad4(d[1])
    \o <<" ","0","0",":","0","0",":","0","0"," ","G","M","T">>

\* jsonify(results), for one result
jsonify(result) ==
    [result EXCEPT !.start_date = http_date(@),
                   !.created_date = http_date(@)]

\* marshal(result, promotion_model): the fields of the model, each formatted,
\* None for a key that result lacks; the model names the id "_id", a key that
\* serialize() does not produce
marshal(result) ==
    [f \in Fields \cup {"_id"} |->
        CASE f \notin DOMAIN result -> None
          [] f = "promo_code" -> IntStr(result.promo_code)
          [] f = "promo_value" -> [float |-> IntOf(result.promo_value)]
          [] f \in {"start_date", "created_date"} -> isoformat(result[f])
          [] OTHER -> result[f]]

\* request.args.get(key): the value, when the query string has the key
HasArg(args, key) == \E i \in DOMAIN args : args[i][1] = key
ArgOf(args, key) == args[CHOOSE i \in DOMAIN args : args[i][1] = key][2]
\* "if title:" and its like: the key is there and its value is not empty
Given(args, key) == HasArg(args, key) /\ Len(ArgOf(args, key)) > 0

\* as the list handlers, but a single parameter is a filter too
Selected_filtering(S, args) ==
    IF Len(args) > 0 THEN find_by_fields(S, args)
    ELSE [ok |-> TRUE, error |-> "none", rows |-> all(S)]

\* lines 336-366 and 437-465: the promotions the list handlers select, or
\* the exception that leaves them
Selected(S, args) ==
    IF Len(args) > 1 THEN find_by_fields(S, args)
    ELSE IF Given(args, "title")
    THEN [ok |-> TRUE, error |-> "none",
          rows |-> find_by_title(S, ArgOf(args, "title"))]
    ELSE IF Given(args, "promo_code")
    THEN IF IntOk(ArgOf(args, "promo_code"))
         THEN [ok |-> TRUE, error |-> "none",
               rows |-> find_by_promo_code(S, IntOf(ArgOf(args, "promo_code")))]
         ELSE [ok |-> FALSE, error |-> "ValueError", rows |-> {}]
    ELSE IF Given(args, "promo_type")
    THEN IF IsEnumName(upper(ArgOf(args, "promo_type")))
         THEN [ok |-> TRUE, error |-> "none",
               rows |-> find_by_promo_type(
                            S, EnumByName(upper(ArgOf(args, "promo_type"))))]
         ELSE [ok |-> FALSE, error |-> "KeyError", rows |-> {}]
    ELSE IF Given(args, "active")
    THEN [ok |-> TRUE, error |-> "none",
          rows |-> find_by_active(
                       S, lower(ArgOf(args, "active")) = <<"t","r","u","e">>)]
    ELSE [ok |-> TRUE, error |-> "none", rows |-> all(S)]

\* the results of a list handler: one per selected row, here under the row's
\* identity (the order is the store's)
Results(rows) ==
    [u \in {r.uid : r \in rows} |->
        serialize(Loaded(CHOOSE r \in rows : r.uid = u))]

\* list_promotions: GET /promotions
list_promotions(S, n, args) ==
    LET q == Selected(S, args)
    IN  IF q.ok
        THEN Response(S, n, HTTP_200_OK,
                      [u \in DOMAIN Results(q.rows) |->
                          jsonify(Results(q.rows)[u])], NoData)
        ELSE IF q.error = "DataValidationError" THEN BadRequest(S, n, NoData)
        ELSE ServerError(S, n, NoData)

\* PromotionCollection.get, with marshal_list_with: GET /api/promotions
PromotionCollection_get(S, n, args) ==
    LET q == Selected(S, args)
    IN  IF q.ok
        THEN Response(S, n, HTTP_200_OK,
                      [u \in DOMAIN Results(q.rows) |->
                          marshal(Results(q.rows)[u])], NoData)
        ELSE IF q.error = "DataValidationError" THEN BadRequest(S, n, NoData)
        ELSE ServerError(S, n, NoData)

(***************************************************************************)
(* Requests                                                                *)
(***************************************************************************)
ActivateBodies == {[active |-> TRUE], [active |-> FALSE], EmptyObject}

\* a request that fails the key or the content-type check is tried with two
\* bodies (one complete, one empty), an accepted request with every body
Probed(requests, probes) ==
    {rq \in requests :
        \/ rq.token = API_KEY /\ rq.ctype = "application/json"
        \/ rq.body \in probes}

PostRequests ==
    Probed([token : Tokens, ctype : ContentTypes, body : Bodies],
           {FullBody(1, TRUE), EmptyObject})
PutRequests ==
    Probed([token : Tokens, ctype : ContentTypes, body : Bodies, id : PathIds],
           {FullBody(1, TRUE), EmptyObject})
ActivateRequests ==
    Probed([token : Tokens, ctype : ContentTypes, body : ActivateBodies,
            id : PathIds],
           {[active |-> TRUE], EmptyObject})
DeleteRequests == [token : Tokens, id : PathIds]
DeleteAllRequests == [token : Tokens]
GetRequests == [id : PathIds]

\* the parameters a query string is made of: values that match a stored
\* promotion, values in another letter case, values that cannot be converted,
\* an empty value, and names that are no column
QueryParams ==
    {<<"title", <<"S","a","l","e">>>>,
     <<"title", <<>>>>,
     <<"promo_code", <<"7">>>>,
     <<"promo_code", <<"a","b","c">>>>,
     <<"promo_type", <<"A","M","O","U","N","T","_","D","I","S","C","O","U","N","T">>>>,
     <<"promo_type", <<"a","m","o","u","n","t","_","d","i","s","c","o","u","n","t">>>>,
     <<"promo_type", <<"F","R","E","E">>>>,
     <<"active", <<"t","r","u","e">>>>,
     <<"active", <<"T","R","U","E">>>>,
     <<"active", <<"n","o">>>>,
     <<"active", <<"f","a","l","s","e">>>>,
     <<"description", <<"x">>>>,
     <<"start_date", <<"2","0","2","4","-","0","1","-","0","1">>>>,
     <<"start_date", <<"s","o","o","n">>>>,
     <<"start_date", <<"2","0","2","4","-","1","-","1">>>>,
     <<"duration", <<"2"," ","d","a","y","s",","," ","1",":","0","2",":","0","3">>>>,
     <<"duration", <<"1",":","0","0",":","0","0">>>>,
     <<"id", <<"1">>>>,
     <<"promo_value", <<"5">>>>,
     <<"foo", <<"1">>>>,
     <<"serialize", <<"1">>>>}

\* request.args of a GET /promotions: at most MaxArgs parameters, in the order
\* of the query string, no key twice
ListRequests ==
    [args : {q \in UNION {[1..k -> QueryParams] : k \in 0..MaxArgs} :
                \A i, j \in DOMAIN q : q[i][1] = q[j][1] => i = j}]

\* marshal_with(promotion_model) around a handler: what the handler returns
\* is marshalled, and so is the 401 that token_required returns in its place;
\* an abort (404, 415) and an exception (400, 500) pass by it
Returned(r) ==
    r.status \in {HTTP_200_OK, HTTP_201_CREATED, HTTP_401_UNAUTHORIZED}
marshal_with(r) == IF Returned(r) THEN [r EXCEPT !.out = marshal(@)] ELSE r

\* the routes, with their decorators
GET_promotion(S, n, rq) == marshal_with(PromotionResource_get(S, n, rq.id))

GET_promotions(S, n, rq) == list_promotions(S, n, rq.args)
GET_api_promotions(S, n, rq) == PromotionCollection_get(S, n, rq.args)

POST_promotions(S, n, rq) ==
    marshal_with(IF token_required(rq.token)
                 THEN PromotionCollection_post(S, n, rq.ctype, rq.body)
                 ELSE Unauthorized(S, n))

PUT_promotion(S, n, rq) ==
    marshal_with(IF token_required(rq.token)
                 THEN PromotionResource_put(S, n, rq.id, rq.ctype, rq.body)
                 ELSE Unauthorized(S, n))

PUT_activate(S, n, rq) ==
    marshal_with(IF token_required(rq.token)
                 THEN ToggleActivateResource_put(S, n, rq.id, rq.ctype,
                                                 rq.body)
                 ELSE Unauthorized(S, n))

DELETE_promotion(S, n, rq) ==
    IF token_required(rq.token)
    THEN PromotionResource_delete(S, n, rq.id)
    ELSE Unauthorized(S, n)

DELETE_promotions(S, n, under_test, rq) ==
    IF token_required(rq.token)
    THEN PromotionCollection_delete(S, n, under_test)
    ELSE Unauthorized(S, n)

(***************************************************************************)
(* Callers of the model                                                    *)
(***************************************************************************)
\* ids a caller of the model may have put on an instance
CallerIds == {None} \cup PathIds

States == {"transient", "persistent", "detached"}

\* the instances a caller of the model can hold over table S: one it built
\* (transient), one the session loaded for a stored row, as it was loaded or
\* with its active flag changed since (persistent), one whose row was
\* deleted since (detached: its id was assigned by the sequence and is no
\* longer stored)
Held(S, n, state) ==
    IF state = "transient"
    THEN {Instance(k, a, i) : k \in {1, 2}, a \in BOOLEAN, i \in CallerIds}
    ELSE IF state = "persistent"
    THEN {Loaded(r) : r \in S}
         \cup {[Loaded(r) EXCEPT !.active = ~@] : r \in S}
    ELSE {[Instance(1, TRUE, i) EXCEPT !.uid = i] : i \in (1..(n - 1)) \ Ids(S)}

(***************************************************************************)
(* The state machine.  A request is served in one step, which leaves in    *)
(* last the request (rq), the table it found (before) and the answer; the  *)
(* next request is served once the answer was sent.  A call of the model   *)
(* leaves the instance (self), its session state and the call's result.    *)
(***************************************************************************)
Idle == [op |-> "idle"]

\* the row that a flush writes for an instance of the session
Flushed(self) == [self EXCEPT !.promo_type = EnumBind(@)]

\* the table as a session shows it: a stored promotion that the session
\* holds with changes is shown (and, at a commit, written) with them
View(S, held) ==
    {r \in S : \A self \in held : self.uid # r.uid}
    \cup {Flushed(self) : self \in {h \in held : \E r \in S : r.uid = h.uid}}

\* the session after a handler has changed the instances of dirty
Hold(held, dirty) ==
    {h \in held : \A self \in dirty : self.uid # h.uid} \cup dirty

\* what the handlers of the request that is served now find stored
Visible == View(store, session)

\* r is the handler's result on Visible: the table changes when the handler
\* has committed, and the session keeps what it has neither committed nor
\* rolled back
Served(op, rq, r) ==
    /\ last = Idle
    /\ (r.nextId = nextId \/ r.nextId <= MaxId + 1)
    /\ store' = IF r.tx = "commit" THEN r.store ELSE store
    /\ nextId' = r.nextId
    /\ session' = IF r.tx = "none" THEN Hold(session, r.dirty) ELSE {}
    /\ UNCHANGED testing
    /\ last' = [op |-> op, rq |-> rq, before |-> store, seen |-> Visible,
                status |-> r.status, out |-> r.out, location |-> r.location]

Called(op, state, self, fault, r) ==
    /\ last = Idle
    /\ store' = r.store
    /\ session' = {}
    /\ UNCHANGED testing
    /\ last' = [op |-> op, state |-> state, self |-> self, before |-> store,
                sequence |-> nextId, fault |-> fault, result |-> r]

Init ==
    /\ store = {}
    /\ nextId = 1
    /\ testing \in BOOLEAN
    /\ last = Idle
    /\ session = {}

Get ==
    /\ last = Idle
    /\ \E rq \in GetRequests :
        Served("GET", rq, GET_promotion(Visible, nextId, rq))

Post ==
    /\ last = Idle
    /\ \E rq \in PostRequests :
        Served("POST", rq, POST_promotions(Visible, nextId, rq))

Put ==
    /\ last = Idle
    /\ \E rq \in PutRequests :
        Served("PUT", rq, PUT_promotion(Visible, nextId, rq))

Activate ==
    /\ last = Idle
    /\ \E rq \in ActivateRequests :
        Served("ACTIVATE", rq, PUT_activate(Visible, nextId, rq))

Delete ==
    /\ last = Idle
    /\ \E rq \in DeleteRequests :
        Served("DELETE", rq, DELETE_promotion(Visible, nextId, rq))

DeleteAll ==
    /\ last = Idle
    /\ \E rq \in DeleteAllRequests :
        Served("DELETE_ALL", rq,
               DELETE_promotions(Visible, nextId, testing, rq))

\* promotion.create() on an instance the caller built, on a store that works
\* or fails
Create ==
    /\ last = Idle
    /\ \E self \in Held(store, nextId, "transient") :
        \E fault \in BOOLEAN :
            LET c == commit(store, nextId, create(store, nextId, self), fault)
            IN  /\ c.nextId <= MaxId + 1
                /\ nextId' = c.nextId
                /\ Called("create", "transient", self, fault, c)

\* promotion.update()
Update ==
    /\ last = Idle
    /\ \E state \in States :
        \E self \in Held(store, nextId, state) :
            \E fault \in BOOLEAN :
                /\ UNCHANGED nextId
                /\ Called("update", state, self, fault,
                          commit(store, nextId, update(store, self, state),
                                 fault))

\* promotion.delete()
DeleteRecord ==
    /\ last = Idle
    /\ \E state \in States :
        \E self \in Held(store, nextId, state) :
            \E fault \in BOOLEAN :
                /\ UNCHANGED nextId
                /\ Called("delete", state, self, fault,
                          commit(store, nextId, delete(store, self, state),
                                 fault))

\* Promotion().deserialize(promotion.serialize()).serialize(), with nothing
\* saved in between, for a promotion the caller built or the session loaded
RoundTrip ==
    /\ last = Idle
    /\ \E state \in {"transient", "persistent"} :
          \E self \in Held(store, nextId, state) :
              LET data == serialize(self)
                  copy == deserialize(NewPromotion, data)
              IN  /\ UNCHANGED <<store, nextId, testing, session>>
                  /\ last' = [op |-> "roundtrip", state |-> state,
                              self |-> self, before |-> store, data |-> data,
                              result |->
                                  IF ~copy.ok
                                  THEN [ok |-> FALSE,
                                        error |-> "DataValidationError"]
                                  ELSE IF ~CanSerialize(copy.self)
                                  THEN [ok |-> FALSE,
                                        error |-> "AttributeError"]
                                  ELSE [ok |-> TRUE, error |-> "none",
                                        out |-> serialize(copy.self)]]

\* as Teardown, but the session is kept for the next request
Teardown_keeping ==
    /\ last # Idle
    /\ last' = Idle
    /\ UNCHANGED <<store, nextId, testing, session>>

\* the answer is sent; the request's context ends and its session is removed:
\* what the session held and had not committed is dropped
Teardown ==
    /\ last # Idle
    /\ last' = Idle
    /\ session' = {}
    /\ UNCHANGED <<store, nextId, testing>>

Next ==
    \/ Get
    \/ Post
    \/ Put
    \/ Activate
    \/ Delete
    \/ DeleteAll
    \/ Create
    \/ Update
    \/ DeleteRecord
    \/ RoundTrip
    \/ Teardown

Spec == Init /\ [][Next]_vars

(***************************************************************************)
(* Operations that leave the table as it is: GET /promotions and           *)
(* GET /api/promotions, Promotion.find_by_fields and Promotion.deserialize *)
(* are examined from each table of a family of tables rather than along    *)
(* the runs of Spec.                                                       *)
(***************************************************************************)
\* the row that the i-th POST of a run has left: the rows of a table differ
\* in their ids, some in title or in active only, and the fourth repeats the
\* first but for its id
QueryRow(i) ==
    LET k == IF (i - 1) % 3 = 2 THEN 2 ELSE 1
        a == (i - 1) % 3 # 1
    IN  [Instance(k, a, i) EXCEPT !.uid = i, !.promo_type = @.enum]

QueryStores == SUBSET {QueryRow(i) : i \in 1..MaxRows}

InitQuery ==
    /\ store \in QueryStores
    /\ nextId = MaxRows + 1
    /\ testing = FALSE
    /\ last = Idle
    /\ session = {}

\* GET /promotions?...
List ==
    /\ last = Idle
    /\ \E rq \in ListRequests :
        Served("LIST", rq, GET_promotions(Visible, nextId, rq))

\* GET /api/promotions?...
ListApi ==
    /\ last = Idle
    /\ \E rq \in ListRequests :
        Served("LIST_API", rq, GET_api_promotions(Visible, nextId, rq))

\* Promotion.find_by_fields(query_params), called on its own: query_params
\* is any dict of at most MaxArgs entries, one entry included
FindByFields ==
    /\ last = Idle
    /\ \E rq \in ListRequests :
          /\ UNCHANGED <<store, nextId, testing, session>>
          /\ last' = [op |-> "find_by_fields", rq |-> rq, before |-> store,
                      result |-> find_by_fields(Visible, rq.args)]

\* the mappings deserialize is given: a complete one, less at most MaxMissing
\* of the required keys, with or without an "id" key
Mappings ==
    {[f \in DOMAIN b \ M |-> b[f]] :
        b \in {FullBody(1, TRUE), WithId(FullBody(2, FALSE), 1)},
        M \in {K \in SUBSET Fields : Cardinality(K) <= MaxMissing}}

\* promotion.deserialize(data), on a new Promotion() or on a stored one that
\* the session loaded
Deserialize ==
    /\ last = Idle
    /\ \E data \in Mappings :
          \E u \in {None} \cup {r.uid : r \in store} :
              LET self == IF u = None THEN NewPromotion
                          ELSE Loaded(CHOOSE r \in store : r.uid = u)
              IN  /\ UNCHANGED <<store, nextId, testing>>
                  /\ session' = IF u = None THEN session
                                ELSE Hold(session, {deserialize(self, data).self})
                  /\ last' = [op |-> "deserialize", data |-> data,
                              self |-> self, before |-> store,
                              result |-> deserialize(self, data)]

NextQuery ==
    \/ List
    \/ ListApi
    \/ FindByFields
    \/ Deserialize
    \/ Teardown

SpecQuery == InitQuery /\ [][NextQuery]_vars

(***************************************************************************)
(* Claims                                                                  *)
(***************************************************************************)
Writes == {"POST", "PUT", "ACTIVATE", "DELETE", "DELETE_ALL"}

C2_Claimed ==
    (last.op = "create" /\ last.result.ok)
        => (last.result.id # None /\ last.result.id # last.self.id)

\* C2, amended: a successful Create leaves the record with a non-null id that
\* the store assigned (the next value of its sequence, an id no stored row
\* has), whatever value the caller supplied; it may equal that value.
C2_StoreAssignedId ==
    (last.op = "create" /\ last.result.ok)
        => /\ last.result.id # None
           /\ last.result.id = last.sequence
           /\ last.result.id \notin Ids(last.before)
           /\ \E r \in store : r.id = last.result.id /\ r \notin last.before

\* a Create of an instance that carried an id other than the one assigned
C2_Witness ==
    /\ last.op = "create"
    /\ last.result.ok
    /\ last.self.id \in Ids(last.before)
    /\ last.result.id # last.self.id

\* C3: no two stored promotions share an id, and no request or call changes
\* the id of a row that stays in the table (uid tells which row is which).
C3_IdUniqueImmutable ==
    /\ \A r1 \in store : \A r2 \in store : r1.id = r2.id => r1 = r2
    /\ last.op # "idle" =>
         \A r \in store : \A r0 \in last.before :
            r.uid = r0.uid => r.id = r0.id

\* a PUT that was answered 200 and whose body carried another id than the
\* path, with a second row in the table
C3_Witness ==
    /\ last.op = "PUT"
    /\ last.status = HTTP_200_OK
    /\ "id" \in DOMAIN last.rq.body
    /\ last.rq.body.id # last.rq.id
    /\ Cardinality(store) >= 2

\* C4: Update on a Promotion whose id is None fails without a store
\* operation: no commit is issued and the table is as it was.
C4_UpdateWithoutId ==
    (last.op = "update" /\ last.self.id = None)
        => /\ ~last.result.ok
           /\ last.result.commits = 0
           /\ store = last.before

C4_Witness ==
    /\ last.op = "update"
    /\ last.self.id = None
    /\ ~last.result.ok
    /\ store # {}

\* C5: an authorised DELETE /promotions/{id} is answered 204 with an empty
\* body whether or not the id is stored; when it is not stored the table is
\* unchanged; the same DELETE served again has the same answer and table.
C5_DeleteIdempotent ==
    (last.op = "DELETE" /\ last.rq.token = API_KEY)
        => /\ last.status = HTTP_204_NO_CONTENT
           /\ last.out = EmptyObject
           /\ last.rq.id \notin Ids(last.before) => store = last.before
           /\ LET again == DELETE_promotion(store, nextId, last.rq)
              IN  /\ again.status = last.status
                  /\ again.out = last.out
                  /\ again.store = store

\* an authorised DELETE of an id that is not stored, on a table with rows
C5_Witness ==
    /\ last.op = "DELETE"
    /\ last.rq.token = API_KEY
    /\ last.rq.id \notin Ids(last.before)
    /\ last.before # {}
    /\ last.status = HTTP_204_NO_CONTENT

\* C6, as claimed: Promotion.delete on a record that is not in the store
\* (never persisted, or already deleted) raises no error and leaves the table
\* unchanged (the store itself not failing).
C6_Claimed ==
    (last.op = "delete" /\ last.state # "persistent" /\ ~last.fault)
        => (last.result.ok /\ store = last.before)

\* C6, amended: Promotion.delete on a record that is not in the store leaves
\* the table unchanged; unless the store itself fails, it raises no error on
\* an already deleted record and DataValidationError on a never persisted
\* one.
C6_DeleteNotStored ==
    (last.op = "delete" /\ last.state # "persistent")
        => /\ store = last.before
           /\ ~last.fault => (last.result.ok <=> last.state = "detached")

\* a never persisted instance that carries the id of a stored row
C6_Witness ==
    /\ last.op = "delete"
    /\ last.state = "transient"
    /\ last.self.id \in Ids(last.before)
    /\ ~last.result.ok

\* C7, as claimed: an authorised DELETE /promotions is answered with a
\* non-success status whenever the service is not in test mode; in test mode
\* it removes every record and is answered 204.
C7_Claimed ==
    (last.op = "DELETE_ALL" /\ last.rq.token = API_KEY)
        => IF testing
           THEN store = {} /\ last.status = HTTP_204_NO_CONTENT
           ELSE last.status # HTTP_204_NO_CONTENT

(***************************************************************************)
(* Listing claims, under SpecQuery                                         *)
(***************************************************************************)
ListOps == {"LIST", "LIST_API"}
Recognised == {"title", "promo_code", "promo_type", "active"}

\* what the response holds for a stored row, on each of the two routes
Rendered(op, r) ==
    IF op = "LIST" THEN jsonify(serialize(Loaded(r)))
    ELSE marshal(serialize(Loaded(r)))

\* the last response is a 200 that lists exactly rows, each once
Lists(rows) ==
    /\ last.status = HTTP_200_OK
    /\ DOMAIN last.out = {r.uid : r \in rows}
    /\ \A r \in rows : last.out[r.uid] = Rendered(last.op, r)

\* a stored row's field equals the type-coerced value of a parameter
FieldEquals(r, param) ==
    /\ param[1] \in Columns
    /\ ParamError(param) = "none"
    /\ Equals(r, param)

\* C8, as claimed: a GET /promotions with more than one query parameter is
\* answered 200 with exactly the stored promotions whose fields equal every
\* parameter's type-coerced value
C8_Claimed ==
    (last.op \in ListOps /\ Len(last.rq.args) > 1)
        => Lists({r \in last.before :
                     \A i \in DOMAIN last.rq.args :
                         FieldEquals(r, last.rq.args[i])})

\* the stored promotions a single recognised parameter selects, as the
\* dispatch policy words it
SingleMatch(r, param) ==
    CASE param[1] = "title" -> r.title = param[2]
      [] param[1] = "promo_code" ->
           IntOk(param[2]) /\ r.promo_code = IntOf(param[2])
      [] param[1] = "promo_type" -> EnumName(r.promo_type) = upper(param[2])
      [] param[1] = "active" ->
           r.active = (lower(param[2]) = <<"t","r","u","e">>)

\* C9, as claimed: a GET /promotions with exactly one query parameter, one of
\* title, promo_code, promo_type and active, is answered 200 with exactly
\* the stored promotions whose field matches the value
C9_Claimed ==
    (/\ last.op \in ListOps
     /\ Len(last.rq.args) = 1
     /\ last.rq.args[1][1] \in Recognised)
        => Lists({r \in last.before : SingleMatch(r, last.rq.args[1])})

Found == last.op = "find_by_fields"

\* C11, as claimed: find_by_fields fails with the DataValidationError "not a
\* valid attribute", and returns nothing, whenever a key of query_params is
\* not one of the ten fields of Promotion, whatever the other entries are
C11_Claimed ==
    (/\ Found
     /\ \E i \in DOMAIN last.rq.args : last.rq.args[i][1] \notin Columns)
        => /\ ~last.result.ok
           /\ last.result.error = "DataValidationError"
           /\ last.result.rows = {}

\* the flag that a value of active asks for: true for "true" in any letter
\* case, false for any other string
Flag(value) == lower(value) = <<"t","r","u","e">>

\* C12: find_by_fields with an entry for active returns only records whose
\* active flag is the one asked for, and, when it returns, omits none of the
\* records with that flag that satisfy the other entries
C12_ActiveFlag ==
    Found =>
        \A i \in DOMAIN last.rq.args :
            last.rq.args[i][1] = "active" =>
                /\ \A r \in last.result.rows :
                      r \in last.before /\ r.active = Flag(last.rq.args[i][2])
                /\ last.result.ok =>
                      \A r \in last.before :
                          (/\ r.active = Flag(last.rq.args[i][2])
                           /\ \A j \in DOMAIN last.rq.args \ {i} :
                                 Equals(r, last.rq.args[j]))
                              => r \in last.result.rows

\* a call with title=Sale and active=TRUE has returned a record and has left
\* out one with that title that is not active
C12_Witness ==
    /\ Found
    /\ last.rq.args = << <<"title", <<"S","a","l","e">> >>,
                         <<"active", <<"T","R","U","E">> >> >>
    /\ last.result.ok
    /\ \E r \in last.result.rows : r.active
    /\ \E r \in last.before \ last.result.rows :
          r.title = <<"S","a","l","e">> /\ ~r.active

\* a raw value that cannot be converted to the type of its column: no integer
\* for an Integer column, no date for a Date column, no duration for the
\* Interval column
Uncoercible(param) ==
    /\ param[1] \in Columns
    /\ \/ ColumnType(param[1]) = "Integer" /\ ~IntOk(param[2])
       \/ ColumnType(param[1]) = "Date" /\ ~DateOk(param[2])
       \/ ColumnType(param[1]) = "Interval" /\ IntervalError(param[2]) # "none"

Accepted ==
    last.rq.token = API_KEY /\ last.rq.ctype = "application/json"

\* C14: a POST, or a PUT of a stored id, whose body has a promo_type that is
\* not the name of a member of PromotionType is rejected as a validation
\* failure and leaves the table as it was
C14_UnknownPromoType ==
    (/\ last.op \in {"POST", "PUT"}
     /\ Accepted
     /\ "promo_type" \in DOMAIN last.rq.body
     /\ ~IsEnumName(last.rq.body.promo_type)
     /\ last.op = "PUT" => last.rq.id \in Ids(last.before))
        => /\ last.status = HTTP_400_BAD_REQUEST
           /\ store = last.before

\* a PUT with promo_type FREE, complete otherwise, on a stored promotion
C14_Witness ==
    /\ last.op = "PUT"
    /\ Accepted
    /\ last.rq.body = [FullBody(1, TRUE) EXCEPT !.promo_type = <<"F","R","E","E">>]
    /\ last.rq.id \in Ids(last.before)
    /\ last.status = HTTP_400_BAD_REQUEST

\* C15, as claimed: for every valid promotion p, serializing p, deserializing
\* the mapping into a new promotion and serializing that, with nothing saved
\* in between, succeeds and gives the mapping that serializing p gave
C15_Claimed ==
    last.op = "roundtrip"
        => (last.result.ok /\ last.result.out = last.data)

(***************************************************************************)
(* Claims on PUT, POST and GET of one promotion, under Spec                *)
(***************************************************************************)
\* the stored promotion of an id
Stored(S, id) == CHOOSE r \in S : r.id = id

\* C16: an authorised PUT /promotions/{id}/activate with body {"active": v}
\* on a stored promotion leaves that record as it was but for active, which
\* is v, and every other record as it was; a GET of the id then shows
\* active = v, as every GET shows the active of the stored record
C16_ActivateOnly ==
    /\ (/\ last.op = "ACTIVATE"
        /\ Accepted
        /\ "active" \in DOMAIN last.rq.body
        /\ last.rq.id \in Ids(last.before))
          => /\ last.status = HTTP_200_OK
             /\ store = (last.before \ {Stored(last.before, last.rq.id)})
                        \cup {[Stored(last.before, last.rq.id)
                                  EXCEPT !.active = last.rq.body.active]}
             /\ LET shown == GET_promotion(store, nextId, [id |-> last.rq.id])
                IN  /\ shown.status = HTTP_200_OK
                    /\ shown.out.active = last.rq.body.active
    /\ (last.op = "GET" /\ last.status = HTTP_200_OK)
          => /\ last.rq.id \in Ids(store)
             /\ last.out.active = Stored(store, last.rq.id).active

\* an active promotion was made inactive, with another promotion stored
C16_Witness ==
    /\ last.op = "ACTIVATE"
    /\ last.status = HTTP_200_OK
    /\ last.rq.body = [active |-> FALSE]
    /\ Stored(last.before, last.rq.id).active
    /\ ~Stored(store, last.rq.id).active
    /\ Cardinality(store) >= 2

\* C17: an authorised PUT /promotions/{id} or PUT /promotions/{id}/activate
\* with a JSON body, for an id that is not stored, is answered 404 and leaves
\* the table as it was
C17_NoUpsert ==
    (/\ last.op \in {"PUT", "ACTIVATE"}
     /\ Accepted
     /\ last.rq.id \notin Ids(last.before))
        => /\ last.status = HTTP_404_NOT_FOUND
           /\ store = last.before

\* a PUT with a complete body for an id that is not stored, while another
\* promotion is
C17_Witness ==
    /\ last.op = "PUT"
    /\ Accepted
    /\ last.rq.body \in ValidBodies
    /\ last.rq.id \notin Ids(last.before)
    /\ last.before # {}
    /\ last.status = HTTP_404_NOT_FOUND

\* a body with the nine fields and a promo_type that names a member
ValidBody(body) ==
    /\ Fields \subseteq DOMAIN body
    /\ IsEnumName(body.promo_type)

\* C18: an authorised PUT /promotions/{id} with a valid body on a stored
\* promotion is answered 200; afterwards the stored record has the same id
\* and the body's value in each of the nine fields, and the number of
\* records and every other record are as they were
C18_PutStoresBody ==
    (/\ last.op = "PUT"
     /\ Accepted
     /\ ValidBody(last.rq.body)
     /\ last.rq.id \in Ids(last.before))
        => /\ last.status = HTTP_200_OK
           /\ last.rq.id \in Ids(store)
           /\ Cardinality(store) = Cardinality(last.before)
           /\ LET old == Stored(last.before, last.rq.id)
                  new == Stored(store, last.rq.id)
              IN  /\ new.uid = old.uid
                  /\ \A f \in Fields \ {"promo_type"} :
                        new[f] = last.rq.body[f]
                  /\ EnumName(new.promo_type) = last.rq.body.promo_type
                  /\ store \ {new} = last.before \ {old}

\* a PUT was answered 200 and has changed the title and the active flag of
\* a stored promotion, with another promotion stored
C18_Witness ==
    /\ last.op = "PUT"
    /\ last.status = HTTP_200_OK
    /\ Cardinality(store) >= 2
    /\ Stored(store, last.rq.id).title # Stored(last.before, last.rq.id).title
    /\ Stored(store, last.rq.id).active # Stored(last.before, last.rq.id).active

\* the JSON type of a field's value in the bodies the requests carry (a date
\* and a duration travel as text) and in a marshalled answer (promotion_model)
PostedKind(f) ==
    CASE f = "promo_code" -> "number"
      [] f = "active" -> "boolean"
      [] OTHER -> "string"
ShownKind(f) ==
    CASE f = "promo_value" -> "number"
      [] f = "active" -> "boolean"
      [] OTHER -> "string"

\* the text a date or a duration of a body travels as
PostedText(f, v) ==
    CASE f \in {"start_date", "created_date"} -> isoformat(v)
      [] f = "duration" -> TimedeltaStr(v)
      [] OTHER -> v

\* the answer shows, for field f, the value that was posted
SameValue(f, shown, posted) ==
    /\ ShownKind(f) = PostedKind(f)
    /\ shown = PostedText(f, posted)

\* C19, as claimed: an authorised POST /promotions with a valid body is
\* answered 201 with a Location header that names the new record's id, adds
\* exactly one record, and a GET of that location is answered 200 with the
\* field values that were posted
C19_Claimed ==
    (last.op = "POST" /\ Accepted /\ ValidBody(last.rq.body))
        => /\ last.status = HTTP_201_CREATED
           /\ last.location # None
           /\ last.location \in Ids(store) \ Ids(last.before)
           /\ Cardinality(store) = Cardinality(last.before) + 1
           /\ LET shown == GET_promotion(store, nextId,
                                         [id |-> last.location])
              IN  /\ shown.status = HTTP_200_OK
                  /\ \A f \in Fields :
                        SameValue(f, shown.out[f], last.rq.body[f])

\* an answer shows the stored promotion r, in the form of promotion_model
\* (which has no id: see C19)
Shows(out, r) ==
    /\ out.title = r.title
    /\ out.description = r.description
    /\ out.promo_code = IntStr(r.promo_code)
    /\ out.promo_type = EnumName(r.promo_type)
    /\ out.promo_value = [float |-> IntOf(r.promo_value)]
    /\ out.start_date = isoformat(r.start_date)
    /\ out.created_date = isoformat(r.created_date)
    /\ out.duration = TimedeltaStr(r.duration)
    /\ out.active = r.active

\* what GET /promotions/{id} answers on table S
GetAnswers(S, id) ==
    LET shown == GET_promotion(S, nextId, [id |-> id])
    IN  IF id \in Ids(S)
        THEN shown.status = HTTP_200_OK /\ Shows(shown.out, Stored(S, id))
        ELSE /\ shown.status = HTTP_404_NOT_FOUND
             /\ shown.out = Message("was not found")

\* C20: at any point, GET /promotions/{id} is answered 200 with the record
\* if a promotion of that id is stored and 404 with "was not found" if none
\* is; so it is for the GET that was served last, and after a DELETE that
\* was answered 204 the GET of its id is answered 404
C20_GetIffStored ==
    /\ \A id \in PathIds : GetAnswers(store, id)
    /\ last.op = "GET" =>
          IF last.rq.id \in Ids(store)
          THEN /\ last.status = HTTP_200_OK
               /\ Shows(last.out, Stored(store, last.rq.id))
          ELSE /\ last.status = HTTP_404_NOT_FOUND
               /\ last.out = Message("was not found")
    /\ (last.op = "DELETE" /\ last.status = HTTP_204_NO_CONTENT)
          => GET_promotion(store, nextId, [id |-> last.rq.id]).status
                 = HTTP_404_NOT_FOUND

\* a DELETE has removed a stored promotion and has left another one
C20_Witness ==
    /\ last.op = "DELETE"
    /\ last.status = HTTP_204_NO_CONTENT
    /\ last.rq.id \in Ids(last.before)
    /\ last.rq.id \notin Ids(store)
    /\ store # {}

(***************************************************************************)
(* Claims on bodies and headers that are refused, under Spec               *)
(***************************************************************************)
\* C21: an authorised POST or PUT (of a promotion or of its activation) whose
\* Content-Type header is absent or is not exactly "application/json" is
\* answered 415 and leaves the table as it was
C21_UnsupportedMediaType ==
    (/\ last.op \in {"POST", "PUT", "ACTIVATE"}
     /\ last.rq.token = API_KEY
     /\ last.rq.ctype # "application/json")
        => /\ last.status = HTTP_415_UNSUPPORTED_MEDIA_TYPE
           /\ last.out = Message("Content-Type must be application/json")
           /\ store = last.before

\* a PUT with a complete body on a stored promotion, sent as
\* "application/json; charset=utf-8", was answered 415
C21_Witness ==
    /\ last.op = "PUT"
    /\ last.rq.token = API_KEY
    /\ last.rq.ctype = "application/json; charset=utf-8"
    /\ last.rq.body \in ValidBodies
    /\ last.rq.id \in Ids(last.before)
    /\ last.status = HTTP_415_UNSUPPORTED_MEDIA_TYPE

\* C22: an authorised POST /promotions with Content-Type application/json
\* whose body lacks a required key (the empty object, for one) is answered
\* 400 and creates no record: the table is as it was
C22_PostMissingKey ==
    (/\ last.op = "POST"
     /\ Accepted
     /\ ~(Fields \subseteq DOMAIN last.rq.body))
        => /\ last.status = HTTP_400_BAD_REQUEST
           /\ last.location = None
           /\ store = last.before

\* a POST of a body that lacks promo_code only was answered 400 on a table
\* that holds a promotion
C22_Witness ==
    /\ last.op = "POST"
    /\ Accepted
    /\ DOMAIN last.rq.body = Fields \ {"promo_code"}
    /\ last.before # {}
    /\ last.status = HTTP_400_BAD_REQUEST

\* C23: deserialize of a mapping that lacks one or more of the nine required
\* keys fails with a data-validation error that names the first missing key
\* in the order title, description, promo_code, promo_type, promo_value,
\* start_date, created_date, duration, active
C23_FirstMissingKey ==
    (last.op = "deserialize" /\ ~(Fields \subseteq DOMAIN last.data))
        => /\ ~last.result.ok
           /\ last.result.missing \in Fields \ DOMAIN last.data
           /\ \E i \in DOMAIN FieldOrder :
                 /\ FieldOrder[i] = last.result.missing
                 /\ \A j \in 1..(i - 1) : FieldOrder[j] \in DOMAIN last.data

\* a mapping that lacks promo_code and active was refused for promo_code
C23_Witness ==
    /\ last.op = "deserialize"
    /\ Fields \ DOMAIN last.data = {"promo_code", "active"}
    /\ ~last.result.ok
    /\ last.result.missing = "promo_code"

\* C27: when the service is not in test mode, an authorised
\* DELETE /promotions removes no record: the table is the same before and
\* after the request, whatever status is answered
C27_DeleteAllOutsideTest ==
    (last.op = "DELETE_ALL" /\ last.rq.token = API_KEY /\ ~testing)
        => store = last.before

\* outside test mode an authorised DELETE /promotions was answered on a
\* table that holds promotions
C27_Witness ==
    /\ last.op = "DELETE_ALL"
    /\ last.rq.token = API_KEY
    /\ ~testing
    /\ last.before # {}
    /\ last.status = HTTP_204_NO_CONTENT

\* the calls of the model that write
ModelWrites == {"create", "update", "delete"}

\* C25: when the store fails during Create, Update or Delete, the operation
\* rolls the transaction back and then raises a DataValidationError, and the
\* table that any later read finds is the one before the operation: no
\* partial write is observable
C25_StoreFailureRollsBack ==
    (/\ last.op \in ModelWrites
     /\ last.fault
     /\ last.result.commits > 0)
        => /\ ~last.result.ok
           /\ last.result.rollbacks = 1
           /\ last.result.raised = "DataValidationError"
           /\ store = last.before
           /\ \A id \in PathIds : find(store, id) = find(last.before, id)

\* the store has failed for an update of a stored promotion whose active
\* flag was changed, with another promotion stored
C25_Witness ==
    /\ last.op = "update"
    /\ last.state = "persistent"
    /\ last.fault
    /\ last.self \notin {Loaded(r) : r \in last.before}
    /\ ~last.result.ok
    /\ Cardinality(store) >= 2

\* the requests that are served on the table
Requests == Writes \cup {"GET"}

\* C26: an authorised PUT /promotions/{id} on a stored promotion whose JSON
\* body lacks a required key fails, and the stored record keeps all its
\* field values; what deserialize had assigned in memory before the missing
\* key is seen by no later request: every request finds the table as it is
\* stored, so that none can show or commit those assignments
C26_FailedPutLeavesNoTrace ==
    /\ (/\ last.op = "PUT"
        /\ Accepted
        /\ last.rq.id \in Ids(last.before)
        /\ ~(Fields \subseteq DOMAIN last.rq.body))
          => /\ last.status = HTTP_400_BAD_REQUEST
             /\ store = last.before
    /\ last.op \in Requests => last.seen = last.before
    /\ last = Idle => Visible = store

\* a PUT whose body lacks active only was refused, after deserialize had
\* given the loaded promotion another title; the table has the old title
C26_Witness ==
    /\ last.op = "PUT"
    /\ Accepted
    /\ DOMAIN last.rq.body = Fields \ {"active"}
    /\ last.status = HTTP_400_BAD_REQUEST
    /\ \E self \in session :
          /\ self.id = last.rq.id
          /\ self.title = last.rq.body.title
          /\ self.title # Stored(store, last.rq.id).title

(***************************************************************************)
(* Claims on the lookups, under SpecQuery                                  *)
(***************************************************************************)
\* the orders in which the entries of a mapping can be iterated
Reorderings(args) ==
    {q \in [DOMAIN args -> {args[i] : i \in DOMAIN args}] :
        \A i, j \in DOMAIN q : q[i] = q[j] => i = j}

\* C24: the result of find_by_fields does not depend on the order in which
\* the entries of the mapping are applied: when the call succeeds for one
\* order it succeeds for every order, with the same set of promotions
C24_OrderIndependent ==
    Found =>
        \A q \in Reorderings(last.rq.args) :
            LET other == find_by_fields(last.before, q)
            IN  /\ other.ok = last.result.ok
                /\ other.ok => other.rows = last.result.rows

\* a call with two entries, each of which alone selects more, has returned
\* some of the stored promotions and not all of them
C24_Witness ==
    /\ Found
    /\ Len(last.rq.args) = 2
    /\ last.result.ok
    /\ last.result.rows # {}
    /\ \A i \in 1..2 :
          /\ find_by_fields(last.before, <<last.rq.args[i]>>).ok
          /\ find_by_fields(last.before, <<last.rq.args[i]>>).rows
                # last.result.rows

\* C28, as claimed: for a field among title, promo_code, promo_type and
\* active and any raw value that is not empty, the single-field lookup that
\* GET /promotions?f=v dispatches to and find_by_fields({f: v}) agree: both
\* succeed with the same set of promotions or both fail
C28_Claimed ==
    (/\ Found
     /\ Len(last.rq.args) = 1
     /\ last.rq.args[1][1] \in Recognised
     /\ Len(last.rq.args[1][2]) > 0)
        => LET single == Selected(last.before, last.rq.args)
           IN  /\ single.ok = last.result.ok
               /\ single.ok => single.rows = last.result.rows

\* C29, as claimed: for every stored promotion p, find_by_fields called with
\* duration set to the string that serialize gives for p's duration succeeds
\* and its result includes p, durations shorter than one day included
C29_Claimed ==
    (/\ Found
     /\ Len(last.rq.args) = 1
     /\ last.rq.args[1][1] = "duration")
        => \A p \in last.before :
              serialize(Loaded(p)).duration = last.rq.args[1][2]
                  => (last.result.ok /\ p \in last.result.rows)

====
